---- MODULE Spec2Model ----
(***************************************************************************)
(* The multi-version, session-routed MCP gateway of                        *)
(* src/src/versioned-server.ts (runVersionedSSECloudServer): the two       *)
(* session registries, the SSE connect/close handlers, the two message     *)
(* endpoints with the v1 single-candidate fallback, and the two            *)
(* Streamable-HTTP endpoints with their initialize-then-reuse state        *)
(* machine.                                                                *)
(*                                                                         *)
(* The MCP SDK transports and the backend servers are the environment:     *)
(* what they answer, which session id they generate and when they signal   *)
(* close is chosen nondeterministically from small sets.                   *)
(***************************************************************************)
EXTENDS Integers, Sequences, FiniteSets, TLC

VARIABLES
    transports,      \* SSE registry: set of [key, t, version]
    httpTransports,  \* Streamable-HTTP registry: set of [key, t, version, apiKey]
    sse,             \* every SSE connection opened so far, in order of creation
    http,            \* every Streamable-HTTP transport constructed so far
    last,            \* outcome of the handler step that just ran (Idle once flushed);
                     \* reqId is the body's id where the gateway's answer reads it
    delivery,        \* the messages in the order their handlers were entered,
                     \* the order they were handed to a transport, and those
                     \* whose handler is suspended before the handoff
    call             \* the call of a helper of src/src/index.ts that just
                     \* returned: its name, argument and result

vars == <<transports, httpTransports, sse, http, last, delivery, call>>

----------------------------------------------------------------------------
(* Bounds and input sets *)

\* Transports (SSE connections plus Streamable-HTTP transports) ever created.
MaxTransports == 2

\* Messages followed from handler entry to handoff.
MaxMessages == 3

\* API keys taken from the request path.  "a-b" begins with "a" followed by
\* the separator, as real keys of the form fc-... do.
ApiKeys == {"a", "a-b"}

\* Session ids a transport's generator can return (fixed length, like UUIDs).
SessionIds == {"s", "t"}

\* Session id a client can put in a request; "" stands for "not supplied".
RawIds == {"", "s", "t", "b-s"}

\* JSON-RPC ids of a request body; "undefined" stands for a body without id,
\* "0" for the id 0 (a falsy value that is not nullish).
ReqIds == {"undefined", "0"}

Methods == {"initialize", "tools/list"}

\* A request without a (JSON) body: body?.id and body.method are undefined.
NoBody == [method |-> "", id |-> "undefined", params |-> "undefined"]

\* A body whose params member is a primitive (a string, a number) instead
\* of the object or array that JSON-RPC asks for.
PrimitiveParamsBody == [method |-> "tools/list", id |-> "0", params |-> "primitive"]

Bodies ==
    {NoBody} \cup [method : Methods, id : ReqIds, params : {"object"}]
        \cup {PrimitiveParamsBody}

\* Where a request can carry its session id: the query parameter and the
\* two headers.
Req(query, mcpSessionId, xMcpSessionId) ==
    [query |-> query, mcpSessionId |-> mcpSessionId,
     xMcpSessionId |-> xMcpSessionId]

Requests ==
    {Req("", "", ""), Req("s", "", ""), Req("b-s", "", ""), Req("t", "s", ""),
     Req("", "s", "t"), Req("", "", "t")}

\* Every combination of the three carriers.
AllRequests ==
    [query : RawIds, mcpSessionId : RawIds, xMcpSessionId : RawIds]

\* The same for the Streamable-HTTP endpoints, whose registry keys are bare
\* session ids.
McpRequests == {req \in Requests : req.query \notin {"b-s", "s"}}

\* The routes in the order in which they are registered on the app; the
\* catch-all middleware comes after them all.
Routes ==
    << [verb |-> "GET",  url |-> "/health",               handler |-> "health"],
       [verb |-> "GET",  url |-> "/:apiKey/sse",          handler |-> "getSseV1"],
       [verb |-> "HEAD", url |-> "/:apiKey/sse",          handler |-> "headSseV1"],
       [verb |-> "GET",  url |-> "/:apiKey/v2/sse",       handler |-> "getSseV2"],
       [verb |-> "HEAD", url |-> "/:apiKey/v2/sse",       handler |-> "headSseV2"],
       [verb |-> "POST", url |-> "/:apiKey/messages",     handler |-> "postMessagesV1"],
       [verb |-> "POST", url |-> "/:apiKey/v2/messages",  handler |-> "postMessagesV2"],
       [verb |-> "ALL",  url |-> "/:apiKey/v1/mcp",       handler |-> "mcpV1"],
       [verb |-> "ALL",  url |-> "/:apiKey/v2/mcp",       handler |-> "mcpV2"] >>

\* Requests other than those of the SSE, message and mcp handlers below.
OtherRequests ==
    { <<"GET", "/health">>, <<"HEAD", "/health">>, <<"POST", "/health">>,
      <<"GET", "/invalid-endpoint">>, <<"PUT", "/:apiKey/sse">>,
      <<"GET", "/:apiKey/messages">>, <<"HEAD", "/:apiKey/v2/messages">> }

\* Status codes an SDK transport can answer a delegated request with.
SseTransportStatuses == {202, 400}
HttpTransportStatuses == {200, 400}

----------------------------------------------------------------------------
(* The registries: JS objects used as maps *)

Lookup(reg, key) == {e \in reg : e.key = key}

Has(reg, key) == Lookup(reg, key) # {}

Get(reg, key) == CHOOSE e \in reg : e.key = key

\* Mutant: an append that does not replace the entry already under the key.
RegisterAppend(reg, entry) == reg \cup {entry}

\* Mutant: a registration that keeps the entry already under the key.
RegisterKeepsFirst(reg, entry) ==
    IF Has(reg, entry.key) THEN reg ELSE reg \cup {entry}

\* reg[key] = entry
Register(reg, entry) == {e \in reg : e.key # entry.key} \cup {entry}

\* Mutant: a delete that also retags the entries it leaves.
DeleteRetags(reg, key) ==
    {[e EXCEPT !.version = "v1"] : e \in {e \in reg : e.key # key}}

\* delete reg[key]
Delete(reg, key) == {e \in reg : e.key # key}

\* `${apiKey}-${sessionId}`
CompositeKey(apiKey, sessionId) == apiKey \o "-" \o sessionId

\* String.prototype.startsWith
StartsWith(str, prefix) ==
    /\ Len(str) >= Len(prefix)
    /\ SubSeq(str, 1, Len(prefix)) = prefix

\* Mutant: the x-mcp-session-id header is consulted before mcp-session-id.
SessionIdXHeaderFirst(req) ==
    IF req.query # "" THEN req.query
    ELSE IF req.xMcpSessionId # "" THEN req.xMcpSessionId
    ELSE IF req.mcpSessionId # "" THEN req.mcpSessionId
    ELSE ""

\* query || header || header || ''
SessionIdOf(req) ==
    IF req.query # "" THEN req.query
    ELSE IF req.mcpSessionId # "" THEN req.mcpSessionId
    ELSE IF req.xMcpSessionId # "" THEN req.xMcpSessionId
    ELSE ""

\* `${sessionId}` of req.query.sessionId, which is undefined when absent
QuerySessionId(req) == IF req.query # "" THEN req.query ELSE "undefined"

\* Mutant: body?.id || null, which also turns the id 0 into null.
IdOrNullFalsy(body) ==
    IF body.id \in {"undefined", "null", "0"} THEN "null" ELSE body.id

\* Mutant: the id of the request is never echoed.
IdAlwaysNull(body) == "null"

\* body?.id ?? null
IdOrNull(body) == IF body.id = "undefined" \/ body.id = "null" THEN "null" ELSE body.id

----------------------------------------------------------------------------
(* JSON-RPC payloads and the API-key enrichment *)

\* The _meta member of a params object: absent, null, an object (with its
\* members as <<name, value>> pairs) or a truthy primitive.
NoMeta == [kind |-> "undefined", fields |-> {}]

MetaObject(fields) == [kind |-> "object", fields |-> fields]

Metas ==
    {NoMeta, [kind |-> "null", fields |-> {}],
     [kind |-> "primitive", fields |-> {}],
     MetaObject({}), MetaObject({<<"apiKey", "other">>}),
     MetaObject({<<"progressToken", "p">>}),
     MetaObject({<<"apiKey", "other">>, <<"progressToken", "p">>})}

\* One JSON-RPC message, by its params member: absent, an object (with its
\* _meta) or a truthy primitive.
NoParams == [params |-> "undefined", meta |-> NoMeta]

Messages ==
    {NoParams, [params |-> "primitive", meta |-> NoMeta]}
        \cup [params : {"object"}, meta : Metas]

\* What express.json() leaves in req.body: nothing, one JSON object (a
\* single message) or a JSON array (a batch of messages).
AbsentBody == [shape |-> "absent", msgs |-> <<>>]

JsonBodies ==
    {AbsentBody}
        \cup [shape : {"object", "array"}, msgs : {<<m>> : m \in Messages}]
        \cup {[shape |-> "array",
               msgs |-> <<[params |-> "object", meta |-> NoMeta],
                          [params |-> "object",
                           meta |-> MetaObject({<<"apiKey", "other">>})]>>]}

\* const enrichedBody = { ...body }: the spread of nothing is an empty
\* object; the spread of an array is an object with the indices as members,
\* the elements untouched.
SpreadBody(body) ==
    IF body.shape = "absent" THEN [shape |-> "object", msgs |-> <<NoParams>>]
    ELSE IF body.shape = "array" THEN [body EXCEPT !.shape = "indexed"]
    ELSE body

\* if (!params._meta) params._meta = { apiKey };
\* else params._meta.apiKey = apiKey;
\* on a message whose params member is truthy.  Setting a member on a
\* primitive throws a TypeError in strict mode.
EnrichParams(m, apiKey) ==
    IF m.params = "primitive" \/ m.meta.kind = "primitive"
    THEN [threw |-> TRUE, m |-> m]
    ELSE IF m.meta.kind \in {"undefined", "null"}
    THEN [threw |-> FALSE,
          m |-> [m EXCEPT !.meta = MetaObject({<<"apiKey", apiKey>>})]]
    ELSE [threw |-> FALSE,
          m |-> [m EXCEPT !.meta.fields =
                     {f \in m.meta.fields : f[1] # "apiKey"}
                         \cup {<<"apiKey", apiKey>>}]]

\* if (body && body.params) { ... }: only a body that is one JSON object
\* has a params member of its own.
EnrichBody(body, apiKey) ==
    IF body.shape = "object" /\ body.msgs[1].params # "undefined"
    THEN LET r == EnrichParams(body.msgs[1], apiKey)
         IN  [threw |-> r.threw, body |-> [body EXCEPT !.msgs = <<r.m>>]]
    ELSE [threw |-> FALSE, body |-> body]

----------------------------------------------------------------------------
(* Observations *)

NoTarget == [kind |-> "none", t |-> 0]

\* verb, url: the request line; threw: whether the handling raised an
\* exception before ("before") or after ("after") a response went out;
\* responses: how many responses were sent for the request; body: the JSON
\* body the gateway answered with, as a set of <<member, value>> pairs;
\* exit: the status the process exited with (-1 while it runs); failed: the
\* registry keys whose close step failed during shutdown; req: the session
\* id carriers of the request; input: the parsed request body; payload: the
\* body handed to the transport.
Idle ==
    [op |-> "idle", v |-> "", k |-> "", sid |-> "", method |-> "", reqId |-> "",
     path |-> "", by |-> "", status |-> 0, code |-> 0, message |-> "", id |-> "",
     target |-> NoTarget, verb |-> "", url |-> "", threw |-> "",
     responses |-> 0, body |-> {}, exit |-> -1, failed |-> {},
     req |-> Req("", "", ""), input |-> AbsentBody, payload |-> AbsentBody]

NoDelivery == [entered |-> <<>>, handed |-> <<>>, waiting |-> {}]

NoCall == [name |-> "", arg |-> <<>>, out |-> <<>>, after |-> <<>>,
           twice |-> <<>>]

Init ==
    /\ transports = {}
    /\ httpTransports = {}
    /\ sse = <<>>
    /\ http = <<>>
    /\ last = Idle
    /\ delivery = NoDelivery
    /\ call = NoCall

\* The response (or event) has gone out; the event loop takes the next event.
\* After process.exit there is no next event.
Flush ==
    /\ last # Idle
    /\ last.op # "SIGINT"
    /\ last' = Idle
    /\ UNCHANGED <<call, delivery, transports, httpTransports, sse, http>>

CanCreate == Len(sse) + Len(http) < MaxTransports

\* What becomes of an exception that leaves the async handler: the
\* framework leaves the request unanswered, or its own error handler
\* answers 500 (not a JSON-RPC envelope).
EscapeOutcomes == {"unanswered", "framework"}

\* The observation of a request whose handler was left by an exception
\* before any response went out.
Escape(base, outcome) ==
    [base EXCEPT !.threw = "before",
                 !.by = IF outcome = "framework" THEN "framework" ELSE "",
                 !.status = IF outcome = "framework" THEN 500 ELSE 0,
                 !.responses = IF outcome = "framework" THEN 1 ELSE 0]

----------------------------------------------------------------------------
(* The router *)

\* Whether a route answers a request method: a route registered for GET
\* also answers HEAD unless the route itself has a HEAD handler.
HandlesMethod(route, verb) ==
    \/ route.verb = "ALL"
    \/ route.verb = (IF verb = "HEAD" /\ route.verb # "HEAD" THEN "GET" ELSE verb)

\* The handler of the first registered route that matches the request; the
\* catch-all when none does.
Dispatch(verb, url) ==
    LET matching == {i \in 1..Len(Routes) :
                        Routes[i].url = url /\ HandlesMethod(Routes[i], verb)}
    IN  IF matching = {} THEN "notFound"
        ELSE Routes[CHOOSE i \in matching : \A j \in matching : i <= j].handler

\* Mutant: the health document without the v2 endpoints.
HealthBodyV1Only ==
    { <<"status", "OK">>, <<"versions", "v1">>,
      <<"endpoints.v1.sse", "/{apiKey}/sse">>,
      <<"endpoints.v1.messages", "/{apiKey}/messages">> }

\* The JSON document of GET /health.
HealthBody ==
    { <<"status", "OK">>, <<"versions", "v1">>, <<"versions", "v2">>,
      <<"endpoints.v1.sse", "/{apiKey}/sse">>,
      <<"endpoints.v1.messages", "/{apiKey}/messages">>,
      <<"endpoints.v2.sse", "/{apiKey}/v2/sse">>,
      <<"endpoints.v2.messages", "/{apiKey}/v2/messages">> }

\* Mutant: a catch-all that only says the endpoint was not found.
NotFoundBodyBare == { <<"error", "Endpoint not found">> }

\* The JSON document of the catch-all.
NotFoundBody ==
    { <<"error", "Endpoint not found">>,
      <<"supportedEndpoints.health", "/health">>,
      <<"supportedEndpoints.v1.sse", "/:apiKey/sse">>,
      <<"supportedEndpoints.v1.messages", "/:apiKey/messages">>,
      <<"supportedEndpoints.v2.sse", "/:apiKey/v2/sse">>,
      <<"supportedEndpoints.v2.messages", "/:apiKey/v2/messages">> }

\* A request that the health route or the catch-all answers.
Other == \E rq \in OtherRequests :
    LET handler == Dispatch(rq[1], rq[2])
        base == [Idle EXCEPT !.verb = rq[1], !.url = rq[2], !.by = "gateway",
                             !.responses = 1]
    IN  /\ last = Idle
        /\ handler \in {"health", "notFound"}
        /\ last' = IF handler = "health"
                   THEN [base EXCEPT !.op = "health", !.status = 200,
                                     !.body = HealthBody]
                   ELSE [base EXCEPT !.op = "notFound", !.status = 404,
                                     !.body = NotFoundBody]
        /\ UNCHANGED <<call, delivery, transports, httpTransports, sse, http>>

----------------------------------------------------------------------------
(* SSE Connection Manager *)

\* Mutant: every transport is connected to the v1 backend server.
BackendAlwaysV1(version) == "v1Server"

\* const v1Server = createV1Server(); const v2Server = createV2Server();
\* each route connects its transports to the server of its version.
BackendOf(version) == IF version = "v1" THEN "v1Server" ELSE "v2Server"

\* new SSEServerTransport(`/${apiKey}/messages`, res) on the v1 route,
\* new SSEServerTransport(`/${apiKey}/v2/messages`, res) on the v2 route.
MessageEndpoint(version, apiKey) ==
    "/" \o apiKey \o (IF version = "v1" THEN "/messages" ELSE "/v2/messages")

SseEntry(t) ==
    [key |-> CompositeKey(sse[t].apiKey, sse[t].sessionId), t |-> t,
     version |-> sse[t].version]

\* app.get('/:apiKey/sse') and app.get('/:apiKey/v2/sse'): construct the
\* transport (which draws its session id), register it, hook res 'close',
\* then connect the backend server.
SseConnect(version, apiKey, sessionId) ==
    /\ last = Idle
    /\ CanCreate
    /\ sse' = Append(sse, [apiKey |-> apiKey, sessionId |-> sessionId,
                           version |-> version, open |-> TRUE,
                           endpoint |-> MessageEndpoint(version, apiKey),
                           server |-> BackendOf(version)])
    /\ transports' = Register(transports,
                              [key |-> CompositeKey(apiKey, sessionId),
                               t |-> Len(sse) + 1, version |-> version])

OpenSse(version, apiKey, sessionId) ==
    /\ SseConnect(version, apiKey, sessionId)
    /\ UNCHANGED <<call, delivery, httpTransports, http, last>>

\* The same handler when await server.connect(transport) rejects: the entry
\* was registered before the call, nothing catches the exception, and the
\* response stays open until the framework or the client ends it.
OpenSseFailed(version, apiKey, sessionId) ==
    /\ SseConnect(version, apiKey, sessionId)
    /\ \E outcome \in EscapeOutcomes :
           last' = Escape([Idle EXCEPT !.op = "sse", !.v = version,
                                       !.k = apiKey, !.sid = sessionId,
                                       !.path = "connectFailed",
                                       !.target = [kind |-> "sse",
                                                   t |-> Len(sse) + 1]],
                          outcome)
    /\ UNCHANGED <<call, delivery, httpTransports, http>>

GetSseV1 == \E apiKey \in ApiKeys, sessionId \in SessionIds :
    \/ OpenSse("v1", apiKey, sessionId)
    \/ OpenSseFailed("v1", apiKey, sessionId)

GetSseV2 == \E apiKey \in ApiKeys, sessionId \in SessionIds :
    \/ OpenSse("v2", apiKey, sessionId)
    \/ OpenSseFailed("v2", apiKey, sessionId)

SseUrl(version) == IF version = "v1" THEN "/:apiKey/sse" ELSE "/:apiKey/v2/sse"

\* HEAD /:apiKey/sse and HEAD /:apiKey/v2/sse.  The request goes to the
\* handler the router picks: the GET handler, registered first, which opens
\* a session and lets the transport start the event stream (status 200), or
\* the HEAD handler, which ends the response with 200.
HeadSse(version, apiKey) ==
    LET handler == Dispatch("HEAD", SseUrl(version))
        base == [Idle EXCEPT !.op = "head", !.verb = "HEAD",
                             !.url = SseUrl(version), !.v = version,
                             !.k = apiKey, !.path = handler, !.status = 200,
                             !.responses = 1]
    IN  IF handler \in {"getSseV1", "getSseV2"}
        THEN /\ \E sessionId \in SessionIds :
                     SseConnect(version, apiKey, sessionId)
             /\ last' = [base EXCEPT !.by = "transport",
                                     !.target = [kind |-> "sse",
                                                 t |-> Len(sse) + 1]]
             /\ UNCHANGED <<call, delivery, httpTransports, http>>
        ELSE /\ last = Idle
             /\ last' = [base EXCEPT !.by = "gateway"]
             /\ UNCHANGED <<call, delivery, transports, httpTransports, sse, http>>

HeadSseV1 == \E apiKey \in ApiKeys : HeadSse("v1", apiKey)

HeadSseV2 == \E apiKey \in ApiKeys : HeadSse("v2", apiKey)

\* Mutant: a close handler that forgets to remove the entry.
CloseSseLeak(reg, t) == reg

\* res.on('close', ...): delete transports[compositeKey]
CloseSse(reg, t) == Delete(reg, CompositeKey(sse[t].apiKey, sse[t].sessionId))

ResClose == \E t \in 1..Len(sse) :
    /\ last = Idle
    /\ sse[t].open
    /\ sse' = [sse EXCEPT ![t].open = FALSE]
    /\ transports' = CloseSse(transports, t)
    /\ UNCHANGED <<call, delivery, httpTransports, http, last>>

----------------------------------------------------------------------------
(* SSE message endpoints *)

\* Mutant: the version comparison is dropped.
DeliverableAnyVersion(found, version) == found # {}

\* if (versionedTransport && versionedTransport.version === '<version>')
Deliverable(found, version) ==
    /\ found # {}
    /\ \A e \in found : e.version = version

\* POST /:apiKey/messages, lookup and single-candidate fallback
ResolveV1(reg, apiKey, rawSessionId) ==
    LET compositeKey == CompositeKey(apiKey, rawSessionId)
        candidates == {e \in reg : e.version = "v1"
                                   /\ StartsWith(e.key, apiKey \o "-")}
    IN  IF Has(reg, compositeKey)
        THEN [found |-> Lookup(reg, compositeKey), path |-> "exact"]
        ELSE IF Cardinality(candidates) = 1
        THEN [found |-> candidates, path |-> "fallback"]
        ELSE [found |-> {}, path |-> "miss"]

\* Mutant: the v2 message lookup also consults the Streamable-HTTP registry.
ResolveV2BothRegistries(reg, apiKey, sessionId) ==
    LET both == reg \cup {[key |-> CompositeKey(e.apiKey, e.key), t |-> e.t,
                           version |-> e.version] : e \in httpTransports}
        compositeKey == CompositeKey(apiKey, sessionId)
    IN  IF Has(both, compositeKey)
        THEN [found |-> Lookup(both, compositeKey), path |-> "exact"]
        ELSE [found |-> {}, path |-> "miss"]

\* POST /:apiKey/v2/messages, lookup by the query parameter only
ResolveV2(reg, apiKey, sessionId) ==
    LET compositeKey == CompositeKey(apiKey, sessionId)
    IN  IF Has(reg, compositeKey)
        THEN [found |-> Lookup(reg, compositeKey), path |-> "exact"]
        ELSE [found |-> {}, path |-> "miss"]

\* Mutant: the 400 body of the earlier revision, with the attempted key and
\* the keys of the registry.
RejectBodyVerbose(message, compositeKey, reg) ==
    {<<"error", message>>, <<"sessionId", compositeKey>>}
        \cup {<<"availableTransports", e.key>> : e \in reg}

\* Mutant: a 400 body that tells an ambiguous fallback from a miss.
RejectBodyAmbiguity(message, compositeKey, reg) ==
    IF Cardinality(reg) > 1 THEN {<<"error", "Ambiguous session">>}
    ELSE {<<"error", message>>}

\* res.status(400).json({ error: '...' }): neither the attempted key nor the
\* registry goes into the body.
RejectBody(message, compositeKey, reg) == {<<"error", message>>}

\* The outcome of a message POST given what the lookup resolved.
MessageOutcome(version, apiKey, sid, r, message, st) ==
    LET base == [Idle EXCEPT !.op = "messages", !.v = version, !.k = apiKey,
                             !.sid = sid, !.responses = 1]
    IN  IF Deliverable(r.found, version)
        THEN [base EXCEPT !.path = r.path, !.by = "transport", !.status = st,
                          !.target = [kind |-> "sse",
                                      t |-> (CHOOSE e \in r.found : TRUE).t]]
        ELSE [base EXCEPT !.path = "reject", !.by = "gateway", !.status = 400,
                          !.message = message,
                          !.body = RejectBody(message,
                                              CompositeKey(apiKey, sid),
                                              transports)]

\* await versionedTransport.transport.handlePostMessage(...) rejects, with
\* nothing sent or after the transport answered 500 itself; the handler has
\* no try block, so the exception leaves it.
HandlePostMessageThrows == {"unanswered", "framework", "answered"}

MessageThrew(delivered, how) ==
    IF how = "answered"
    THEN [delivered EXCEPT !.path = "escaped", !.threw = "after"]
    ELSE Escape([delivered EXCEPT !.path = "escaped"], how)

\* Mutant: the fallback stores the transport it found under the key that was
\* asked for.
FallbackCaches(reg, compositeKey, r) ==
    IF r.path = "fallback"
    THEN Register(reg, [key |-> compositeKey,
                        t |-> (CHOOSE e \in r.found : TRUE).t,
                        version |-> "v1"])
    ELSE reg

\* compositeKey = fallbackKey; versionedTransport = vt: the fallback rebinds
\* the handler's local variables; the registry is only read.
FallbackRebinds(reg, compositeKey, r) == reg

PostMessagesV1 ==
    \E apiKey \in ApiKeys, req \in Requests :
        LET rawSessionId == SessionIdOf(req)
            r == ResolveV1(transports, apiKey, rawSessionId)
        IN  /\ last = Idle
            /\ \/ \E st \in IF Deliverable(r.found, "v1")
                             THEN SseTransportStatuses ELSE {400} :
                       last' = MessageOutcome("v1", apiKey, rawSessionId, r,
                                 "No V1 transport found for sessionId", st)
               \/ /\ Deliverable(r.found, "v1")
                  /\ \E how \in HandlePostMessageThrows :
                       last' = MessageThrew(
                                 MessageOutcome("v1", apiKey, rawSessionId,
                                                r, "", 500), how)
            /\ transports' = FallbackRebinds(transports,
                                 CompositeKey(apiKey, rawSessionId), r)
            /\ UNCHANGED <<call, delivery, httpTransports, sse, http>>

PostMessagesV2 ==
    \E apiKey \in ApiKeys, req \in Requests :
        LET sessionId == QuerySessionId(req)
            r == ResolveV2(transports, apiKey, sessionId)
        IN  /\ last = Idle
            /\ \/ \E st \in IF Deliverable(r.found, "v2")
                             THEN SseTransportStatuses ELSE {400} :
                       last' = MessageOutcome("v2", apiKey, sessionId, r,
                                 "No V2 transport found for sessionId", st)
               \/ /\ Deliverable(r.found, "v2")
                  /\ \E how \in HandlePostMessageThrows :
                       last' = MessageThrew(
                                 MessageOutcome("v2", apiKey, sessionId,
                                                r, "", 500), how)
            /\ UNCHANGED <<call, delivery, transports, httpTransports, sse, http>>

----------------------------------------------------------------------------
(* Streamable-HTTP Session Manager *)

\* Mutant: the API key comparison is dropped.
ResolvesAnyKey(reg, version, apiKey, existingSessionId) ==
    /\ existingSessionId # ""
    /\ Has(reg, existingSessionId)
    /\ Get(reg, existingSessionId).version = version

\* Mutant: the version comparison is dropped.
ResolvesAnyVersion(reg, version, apiKey, existingSessionId) ==
    /\ existingSessionId # ""
    /\ Has(reg, existingSessionId)
    /\ Get(reg, existingSessionId).apiKey = apiKey

\* Mutant: the handler never reuses a registered transport.
ResolvesNever(reg, version, apiKey, existingSessionId) == FALSE

\* existingSessionId && httpTransports[existingSessionId] &&
\* .version === '<version>' && .apiKey === apiKey
Resolves(reg, version, apiKey, existingSessionId) ==
    /\ existingSessionId # ""
    /\ Has(reg, existingSessionId)
    /\ Get(reg, existingSessionId).version = version
    /\ Get(reg, existingSessionId).apiKey = apiKey

\* What becomes of a transport constructed for an initialize request before
\* its session is initialized: "proceed" (the handler is waiting for
\* server.connect and handleRequest), "failed" (construction or connect
\* failed, or handleRequest threw before it initialized the session: the
\* catch block answers 500), "refused"
\* (handleRequest answered the request itself with an error).  A transport
\* that fails or is refused was never registered and is dropped, and its
\* handler reads and writes no registry after the lookup, so these two
\* outcomes are taken in the same step.
InitOutcomes == {"proceed", "failed", "refused"}

\* if (body && body.params) { if (!body.params._meta) body.params._meta =
\* { apiKey }; else body.params._meta.apiKey = apiKey }, which comes before
\* the try block.  The module is strict-mode code, where creating a property
\* on a primitive raises a TypeError.
EnrichThrows(body) == body.params = "primitive"

\* { jsonrpc: '2.0', error: { code, message }, id }
JsonRpcError(code, message, id) ==
    { <<"jsonrpc", "2.0">>, <<"error.code", ToString(code)>>,
      <<"error.message", message>>, <<"id", id>> }

\* catch (error) { if (!res.headersSent) { res.status(500).json(...) } }
CatchSends(headersSent) == ~headersSent

\* Responses sent for a request inside the try block: the one the transport
\* sent, if any, and the one of the catch block, if an exception reached it.
Responses(headersSent, threw) ==
    (IF headersSent THEN 1 ELSE 0)
        + (IF threw /\ CatchSends(headersSent) THEN 1 ELSE 0)

\* The answer of the catch block when no response has gone out.
InternalError(base, body) ==
    [base EXCEPT !.by = "gateway", !.status = 500, !.code = -32603,
                 !.message = "Internal server error",
                 !.reqId = body.id, !.id = IdOrNull(body),
                 !.body = JsonRpcError(-32603, "Internal server error",
                                       IdOrNull(body)),
                 !.threw = "before",
                 !.responses = Responses(FALSE, TRUE)]

\* app.all('/:apiKey/<version>/mcp'): reuse an existing transport, start a
\* new one on initialize, or reject.
McpRequest(version, apiKey, req, body) ==
    LET existingSessionId == SessionIdOf(req)
        base == [Idle EXCEPT !.op = "mcp", !.v = version, !.k = apiKey,
                             !.sid = existingSessionId, !.method = body.method]
    IN  /\ last = Idle
        /\ IF EnrichThrows(body)
           THEN /\ \E outcome \in EscapeOutcomes :
                     last' = [Idle EXCEPT
                              !.op = "enrich", !.v = version, !.k = apiKey,
                              !.method = body.method, !.path = "escaped",
                              !.reqId = body.id, !.threw = "before",
                              !.by = IF outcome = "framework"
                                     THEN "framework" ELSE "",
                              !.status = IF outcome = "framework"
                                         THEN 500 ELSE 0,
                              !.responses = IF outcome = "framework"
                                            THEN 1 ELSE 0]
                /\ UNCHANGED http
           ELSE IF Resolves(httpTransports, version, apiKey, existingSessionId)
           THEN LET existing ==
                        [base EXCEPT
                           !.path = "existing",
                           !.target = [kind |-> "http",
                                       t |-> Get(httpTransports,
                                                 existingSessionId).t]]
                IN  /\ \/ \E st \in HttpTransportStatuses :
                             last' = [existing EXCEPT
                                        !.by = "transport", !.status = st,
                                        !.responses = Responses(TRUE, FALSE)]
                       \/ last' = [existing EXCEPT
                                     !.by = "transport", !.status = 200,
                                     !.threw = "after",
                                     !.responses = Responses(TRUE, TRUE)]
                       \/ last' = InternalError(existing, body)
                    /\ UNCHANGED http
           ELSE IF body.method = "initialize"
           THEN \E outcome \in InitOutcomes :
                  CASE outcome = "proceed" ->
                         /\ CanCreate
                         /\ http' = Append(http,
                                      [version |-> version, apiKey |-> apiKey,
                                       sessionId |-> "", pc |-> "connecting",
                                       server |-> BackendOf(version),
                                       closed |-> FALSE])
                         /\ last' = [base EXCEPT
                                       !.path = "connecting",
                                       !.target = [kind |-> "http",
                                                   t |-> Len(http) + 1]]
                    [] outcome = "failed" ->
                         /\ last' = InternalError(
                                        [base EXCEPT !.path = "failed"], body)
                         /\ UNCHANGED http
                    [] outcome = "refused" ->
                         /\ last' = [base EXCEPT
                                       !.path = "refused",
                                       !.by = "transport", !.status = 400,
                                       !.responses = 1]
                         /\ UNCHANGED http
           ELSE /\ last' = [base EXCEPT
                              !.path = "reject", !.by = "gateway",
                              !.status = 400, !.code = -32000,
                              !.message = "Invalid or missing session ID",
                              !.reqId = body.id,
                              !.id = IdOrNull(body),
                              !.body = JsonRpcError(
                                           -32000,
                                           "Invalid or missing session ID",
                                           IdOrNull(body)),
                              !.responses = 1]
                /\ UNCHANGED http
        /\ UNCHANGED <<call, delivery, transports, httpTransports, sse>>

McpV1 == \E apiKey \in ApiKeys, req \in McpRequests, body \in Bodies :
    McpRequest("v1", apiKey, req, body)

McpV2 == \E apiKey \in ApiKeys, req \in McpRequests, body \in Bodies :
    McpRequest("v2", apiKey, req, body)

\* Mutant: the callback of the v2 route registers the session as v1.
OnSessionInitializedV1(reg, t, sid) ==
    Register(reg, [key |-> sid, t |-> t, version |-> "v1",
                   apiKey |-> http[t].apiKey])

\* Mutant: the callback registers nothing (registration left for later).
OnSessionInitializedLate(reg, t, sid) == reg

\* Mutant: the callback stores the entry under a fixed key instead of the
\* session id it was given.
OnSessionInitializedFixedKey(reg, t, sid) ==
    Register(reg, [key |-> "s", t |-> t, version |-> http[t].version,
                   apiKey |-> http[t].apiKey])

\* onsessioninitialized: httpTransports[sid] = { transport, version, apiKey }
OnSessionInitialized(reg, t, sid) ==
    Register(reg, [key |-> sid, t |-> t, version |-> http[t].version,
                   apiKey |-> http[t].apiKey])

\* server.connect resolved and transport.handleRequest accepted the
\* initialize request: the transport draws its session id and fires the
\* initialization callback.
InitRegistered == \E t \in 1..Len(http), sid \in SessionIds :
    /\ last = Idle
    /\ http[t].pc = "connecting"
    /\ http' = [http EXCEPT ![t].sessionId = sid, ![t].pc = "initialized"]
    /\ httpTransports' = OnSessionInitialized(httpTransports, t, sid)
    /\ UNCHANGED <<call, delivery, transports, sse, last>>

\* `await transport.handleRequest` of the initialize request ends: the
\* transport has sent the initialize response and returns ("responded"),
\* it throws after sending it ("threwAfter"), or it throws without having
\* sent anything ("threwBefore") and the catch block answers.  The id is
\* that of the request's body.
InitEndings == {"responded", "threwAfter", "threwBefore"}

InitResponded == \E t \in 1..Len(http), ending \in InitEndings :
    LET base == [Idle EXCEPT
                   !.op = "mcpInit", !.v = http[t].version,
                   !.k = http[t].apiKey, !.method = "initialize",
                   !.path = "done", !.target = [kind |-> "http", t |-> t]]
    IN  /\ last = Idle
        /\ http[t].pc = "initialized"
        /\ http' = [http EXCEPT ![t].pc = "done"]
        /\ IF ending = "threwBefore"
           THEN \E id \in ReqIds :
                    last' = InternalError(base, [method |-> "initialize",
                                                 id |-> id,
                                                 params |-> "object"])
           ELSE last' = [base EXCEPT
                           !.by = "transport", !.status = 200,
                           !.threw = IF ending = "threwAfter"
                                     THEN "after" ELSE "",
                           !.responses =
                               Responses(TRUE, ending = "threwAfter")]
        /\ UNCHANGED <<call, delivery, transports, httpTransports, sse>>

\* Mutant: onclose never removes the entry.
OnCloseKeeps(reg, t) == [reg |-> reg, threw |-> FALSE]

\* Mutant: onclose deletes without the guard and fails on a missing entry.
OnCloseStrict(reg, t) ==
    LET sid == http[t].sessionId
    IN  [reg |-> Delete(reg, sid), threw |-> ~Has(reg, sid)]

\* transport.onclose: const sid = transport.sessionId;
\* if (sid && httpTransports[sid]) delete httpTransports[sid]
OnClose(reg, t) ==
    LET sid == http[t].sessionId
    IN  [reg |-> IF sid # "" /\ Has(reg, sid) THEN Delete(reg, sid) ELSE reg,
         threw |-> FALSE]

\* The transport of an initialized session signals close (a DELETE it
\* handled, a server close, ...); a transport may signal it more than once.
HttpClose == \E t \in 1..Len(http) :
    /\ last = Idle
    /\ http[t].pc = "done"
    /\ http' = [http EXCEPT ![t].closed = TRUE]
    /\ httpTransports' = OnClose(httpTransports, t).reg
    /\ last' = [Idle EXCEPT
                  !.op = "onclose",
                  !.path = IF http[t].closed THEN "again" ELSE "first",
                  !.by = IF OnClose(httpTransports, t).threw
                         THEN "exception" ELSE "",
                  !.target = [kind |-> "http", t |-> t]]
    /\ UNCHANGED <<call, delivery, transports, sse>>

----------------------------------------------------------------------------
(* Lifecycle Controller *)

\* Mutant: a loop without try/catch, which the first failure aborts with an
\* uncaught exception.
ShutdownAborts(reg, failing) ==
    IF failing = {} THEN [reg |-> {}, exit |-> 0]
    ELSE [reg |-> reg, exit |-> 1]

\* for (const [key, vt] of Object.entries(transports)) { try { log; delete
\* transports[key] } catch { log } }; process.exit(0).  An entry whose try
\* block fails keeps its place; the loop goes on with the next one.
Shutdown(reg, failing) ==
    [reg |-> {e \in reg : e \in failing}, exit |-> 0]

\* process.on('SIGINT'): one synchronous handler.  It walks the SSE
\* registry only and waits for nothing.
Sigint == \E failing \in SUBSET transports :
    /\ last = Idle
    /\ transports' = Shutdown(transports, failing).reg
    /\ last' = [Idle EXCEPT !.op = "SIGINT",
                            !.exit = Shutdown(transports, failing).exit,
                            !.failed = {e.key : e \in failing}]
    /\ UNCHANGED <<call, delivery, httpTransports, sse, http>>

----------------------------------------------------------------------------

(* The request-parsing prefix of the handlers, one request at a time *)

Versions == {"v1", "v2"}

\* POST /:apiKey/messages and POST /:apiKey/v2/messages up to the lookup:
\* the body handed to handlePostMessage is the enriched spread copy.
EnrichMessages == \E version \in Versions, apiKey \in ApiKeys,
                     body \in JsonBodies :
    LET r == EnrichBody(SpreadBody(body), apiKey)
    IN  /\ last = Idle
        /\ last' = [Idle EXCEPT !.op = "payload", !.path = "messages",
                                !.v = version, !.k = apiKey, !.input = body,
                                !.payload = r.body,
                                !.threw = IF r.threw THEN "before" ELSE ""]
        /\ UNCHANGED <<call, delivery, transports, httpTransports, sse, http>>

\* ALL /:apiKey/v1/mcp and ALL /:apiKey/v2/mcp up to the try block: the
\* body handed to handleRequest is req.body, enriched in place.
EnrichMcp == \E version \in Versions, apiKey \in ApiKeys,
                body \in JsonBodies :
    LET r == EnrichBody(body, apiKey)
    IN  /\ last = Idle
        /\ last' = [Idle EXCEPT !.op = "payload", !.path = "mcp",
                                !.v = version, !.k = apiKey, !.input = body,
                                !.payload = r.body,
                                !.threw = IF r.threw THEN "before" ELSE ""]
        /\ UNCHANGED <<call, delivery, transports, httpTransports, sse, http>>

\* POST /:apiKey/messages: const rawSessionId = query || header || header || ''
SessionIdMessages == \E apiKey \in ApiKeys, req \in AllRequests :
    /\ last = Idle
    /\ last' = [Idle EXCEPT !.op = "sessionId", !.path = "messages",
                            !.v = "v1", !.k = apiKey, !.req = req,
                            !.sid = SessionIdOf(req)]
    /\ UNCHANGED <<call, delivery, transports, httpTransports, sse, http>>

\* ALL /:apiKey/{v1,v2}/mcp: const existingSessionId = query || header ||
\* header || ''
SessionIdMcp == \E version \in Versions, apiKey \in ApiKeys,
                   req \in AllRequests :
    /\ last = Idle
    /\ last' = [Idle EXCEPT !.op = "sessionId", !.path = "mcp",
                            !.v = version, !.k = apiKey, !.req = req,
                            !.sid = SessionIdOf(req)]
    /\ UNCHANGED <<call, delivery, transports, httpTransports, sse, http>>

NextFunctions ==
    \/ EnrichMessages
    \/ EnrichMcp
    \/ SessionIdMessages
    \/ SessionIdMcp
    \/ Flush

SpecFunctions == Init /\ [][NextFunctions]_vars

----------------------------------------------------------------------------
(* The order of handler entry and handoff, one message at a time *)

\* A gateway with one v1 SSE session and one v1 Streamable-HTTP session of
\* API key "a" registered and idle.
InitOrder ==
    /\ sse = <<[apiKey |-> "a", sessionId |-> "s", version |-> "v1",
                open |-> TRUE, endpoint |-> MessageEndpoint("v1", "a"),
                server |-> BackendOf("v1")]>>
    /\ transports = {[key |-> CompositeKey("a", "s"), t |-> 1,
                      version |-> "v1"]}
    /\ http = <<[version |-> "v1", apiKey |-> "a", sessionId |-> "t",
                 pc |-> "done", server |-> BackendOf("v1"),
                 closed |-> FALSE]>>
    /\ httpTransports = {[key |-> "t", t |-> 1, version |-> "v1",
                          apiKey |-> "a"]}
    /\ last = Idle
    /\ delivery = NoDelivery
    /\ call = NoCall

\* Mutant: every handler awaits something before it hands the message on.
SuspendsAlways(path) == TRUE

\* Whether the handler awaits between its entry and the handoff to the
\* transport.  The message handlers and the reuse branch call the transport
\* in the same synchronous run that did the lookup; the initialize branch
\* awaits server.connect(transport) before transport.handleRequest.
SuspendsBeforeHandoff(path) == path = "initialize"

\* Where the handler that was entered for a message hands it: the resolved
\* SSE transport, the resolved Streamable-HTTP transport, a transport
\* constructed for an initialize, or nowhere (the gateway rejects).
HandoffTarget(route, apiKey, req, method) ==
    LET sid == SessionIdOf(req)
        r == IF route = "messagesV1"
             THEN ResolveV1(transports, apiKey, sid)
             ELSE ResolveV2(transports, apiKey, QuerySessionId(req))
        version == IF route \in {"messagesV1", "mcpV1"} THEN "v1" ELSE "v2"
    IN  IF route \in {"messagesV1", "messagesV2"}
        THEN IF Deliverable(r.found, version)
             THEN [path |-> r.path,
                   target |-> [kind |-> "sse",
                               t |-> (CHOOSE e \in r.found : TRUE).t]]
             ELSE [path |-> "reject", target |-> NoTarget]
        ELSE IF Resolves(httpTransports, version, apiKey, sid)
        THEN [path |-> "existing",
              target |-> [kind |-> "http", t |-> Get(httpTransports, sid).t]]
        ELSE IF method = "initialize"
        THEN [path |-> "initialize", target |-> [kind |-> "new", t |-> 0]]
        ELSE [path |-> "reject", target |-> NoTarget]

\* express calls the handler of the next parsed request; the handler runs to
\* its first await.
HandlerEntered ==
    \E route \in {"messagesV1", "messagesV2", "mcpV1", "mcpV2"},
       apiKey \in ApiKeys, req \in Requests, method \in Methods :
        LET h == HandoffTarget(route, apiKey, req, method)
            m == [n |-> Len(delivery.entered) + 1, route |-> route,
                  target |-> h.target]
        IN  /\ Len(delivery.entered) < MaxMessages
            /\ delivery' =
                 [entered |-> Append(delivery.entered, m),
                  handed |-> IF h.path = "reject"
                                \/ SuspendsBeforeHandoff(h.path)
                             THEN delivery.handed
                             ELSE Append(delivery.handed, m),
                  waiting |-> IF h.path # "reject"
                                 /\ SuspendsBeforeHandoff(h.path)
                              THEN delivery.waiting \cup {m}
                              ELSE delivery.waiting]
            /\ UNCHANGED <<call, transports, httpTransports, sse, http, last>>

\* An awaited promise resolves and a suspended handler goes on to hand its
\* message to the transport.
HandlerResumed ==
    \E m \in delivery.waiting :
        /\ delivery' = [delivery EXCEPT !.handed = Append(@, m),
                                        !.waiting = @ \ {m}]
        /\ UNCHANGED <<call, transports, httpTransports, sse, http, last>>

NextOrder ==
    \/ HandlerEntered
    \/ HandlerResumed

SpecOrder == InitOrder /\ [][NextOrder]_vars

----------------------------------------------------------------------------
(* The helpers of src/src/index.ts *)

\* A header value as node hands it over: absent, a string (its characters)
\* or an array of strings.
Absent == [kind |-> "undefined", chars |-> <<>>, items |-> <<>>]

Str(chars) == [kind |-> "string", chars |-> chars, items |-> <<>>]

Arr(items) == [kind |-> "array", chars |-> <<>>, items |-> items]

XFirecrawlApiKeyValues ==
    {Absent, Str(<<>>), Str(<<"f">>), Arr(<< <<"f">>, <<"g">> >>)}

XApiKeyValues ==
    {Absent, Str(<<>>), Str(<<"x">>), Arr(<< <<"x">>, <<"y">> >>)}

AuthorizationValues ==
    {Absent,
     Str(<<"B", "e", "a", "r", "e", "r", " ", "k">>),
     Str(<<"b", "e", "a", "r", "e", "r", " ", " ", "k", " ">>),
     Str(<<"B", "E", "A", "R", "E", "R", " ", "k", " ", "k">>),
     Str(<<"B", "e", "a", "r", "e", "r", " ">>),
     Str(<<"B", "e", "a", "r", "e", "r", "k">>),
     Str(<<"B", "a", "s", "i", "c", " ", "k">>),
     Arr(<< <<"B", "e", "a", "r", "e", "r", " ", "k">> >>)}

HeaderSets ==
    [xFirecrawlApiKey : XFirecrawlApiKeyValues, xApiKey : XApiKeyValues,
     authorization : AuthorizationValues]

\* String.prototype.toLowerCase, on the letters that occur.
LowerChar(c) ==
    CASE c = "B" -> "b" [] c = "E" -> "e" [] c = "A" -> "a"
      [] c = "R" -> "r" [] OTHER -> c

ToLowerCase(chars) == [i \in 1..Len(chars) |-> LowerChar(chars[i])]

\* String.prototype.startsWith
StartsWithChars(chars, prefix) ==
    /\ Len(chars) >= Len(prefix)
    /\ SubSeq(chars, 1, Len(prefix)) = prefix

\* String.prototype.slice(n)
Slice(chars, n) == SubSeq(chars, n + 1, Len(chars))

\* String.prototype.trim
RECURSIVE TrimStart(_)
TrimStart(chars) ==
    IF chars # <<>> /\ Head(chars) = " " THEN TrimStart(Tail(chars))
    ELSE chars

RECURSIVE TrimEnd(_)
TrimEnd(chars) ==
    IF chars # <<>> /\ chars[Len(chars)] = " "
    THEN TrimEnd(SubSeq(chars, 1, Len(chars) - 1))
    ELSE chars

Trim(chars) == TrimEnd(TrimStart(chars))

\* JavaScript truthiness of a header value.
Truthy(v) == v.kind = "array" \/ (v.kind = "string" /\ v.chars # <<>>)

\* Mutant: the Authorization header is looked at first.
ExtractApiKeyBearerFirst(headers) ==
    LET headerAuth == headers.authorization
        headerApiKey == IF Truthy(headers.xFirecrawlApiKey)
                        THEN headers.xFirecrawlApiKey ELSE headers.xApiKey
    IN  IF headerAuth.kind = "string"
           /\ StartsWithChars(ToLowerCase(headerAuth.chars),
                              <<"b", "e", "a", "r", "e", "r", " ">>)
        THEN Str(Trim(Slice(headerAuth.chars, 7)))
        ELSE IF Truthy(headerApiKey)
        THEN IF headerApiKey.kind = "array" THEN Str(headerApiKey.items[1])
             ELSE headerApiKey
        ELSE Absent

\* function extractApiKey(headers)
ExtractApiKey(headers) ==
    LET headerAuth == headers.authorization
        headerApiKey == IF Truthy(headers.xFirecrawlApiKey)
                        THEN headers.xFirecrawlApiKey ELSE headers.xApiKey
    IN  IF Truthy(headerApiKey)
        THEN IF headerApiKey.kind = "array" THEN Str(headerApiKey.items[1])
             ELSE headerApiKey
        ELSE IF headerAuth.kind = "string"
                /\ StartsWithChars(ToLowerCase(headerAuth.chars),
                                   <<"b", "e", "a", "r", "e", "r", " ">>)
        THEN Str(Trim(Slice(headerAuth.chars, 7)))
        ELSE Absent

\* authenticate, with CLOUD_SERVICE === 'true':
\* if (!apiKey) throw new Error('Firecrawl API key is required');
\* return { firecrawlApiKey: apiKey };
Authenticate(headers) ==
    LET apiKey == ExtractApiKey(headers)
    IN  IF ~Truthy(apiKey)
        THEN [kind |-> "error", chars |-> <<>>,
              items |-> <<"Firecrawl API key is required">>]
        ELSE apiKey

ExtractApiKeyCalled == \E headers \in HeaderSets :
    /\ call = NoCall
    /\ call' = [NoCall EXCEPT !.name = "extractApiKey", !.arg = headers,
                              !.out = ExtractApiKey(headers)]
    /\ UNCHANGED <<transports, httpTransports, sse, http, last, delivery>>

AuthenticateCalled == \E headers \in HeaderSets :
    /\ call = NoCall
    /\ call' = [NoCall EXCEPT !.name = "authenticate", !.arg = headers,
                              !.out = Authenticate(headers)]
    /\ UNCHANGED <<transports, httpTransports, sse, http, last, delivery>>

\* The values a top-level member can have: null, undefined, strings,
\* arrays (their elements), plain objects (their member values), false, 0.
JsValue(type, chars, items) ==
    [type |-> type, chars |-> chars, items |-> items]

JsValues ==
    {JsValue("null", <<>>, <<>>), JsValue("undefined", <<>>, <<>>),
     JsValue("string", <<>>, <<>>), JsValue("string", <<" ", " ">>, <<>>),
     JsValue("string", <<" ", "a", " ">>, <<>>),
     JsValue("array", <<>>, <<>>), JsValue("array", <<>>, <<"emptyArray">>),
     JsValue("object", <<>>, <<>>),
     JsValue("object", <<>>, <<"emptyObject">>),
     JsValue("boolean", <<"false">>, <<>>), JsValue("number", <<"0">>, <<>>)}

JsKeys == {"url", "formats"}

\* The argument objects: every assignment of values to a set of keys.
JsObjects == UNION {[K -> JsValues] : K \in SUBSET JsKeys}

\* Mutant: every falsy value is dropped as well.
DroppedIfFalsy(v) ==
    \/ v.type \in {"null", "undefined", "boolean", "number"}
    \/ v.type = "string" /\ Trim(v.chars) = <<>>
    \/ v.type \in {"array", "object"} /\ Len(v.items) = 0

\* The four `continue` tests of the loop:
\* v == null; typeof v === 'string' && v.trim() === '';
\* Array.isArray(v) && v.length === 0;
\* typeof v === 'object' && !Array.isArray(v) && Object.keys(v).length === 0
Dropped(v) ==
    \/ v.type \in {"null", "undefined"}
    \/ v.type = "string" /\ Trim(v.chars) = <<>>
    \/ v.type = "array" /\ Len(v.items) = 0
    \/ v.type = "object" /\ Len(v.items) = 0

\* function removeEmptyTopLevel(obj): out[k] = v for the entries that pass.
RemoveEmptyTopLevel(obj) ==
    [k \in {j \in DOMAIN obj : ~Dropped(obj[j])} |-> obj[k]]

\* The argument after the call: the loop reads Object.entries(obj) and
\* writes only to `out`.
ArgumentAfter(obj) == obj

RemoveEmptyTopLevelCalled == \E obj \in JsObjects :
    /\ call = NoCall
    /\ call' = [name |-> "removeEmptyTopLevel", arg |-> obj,
                out |-> RemoveEmptyTopLevel(obj),
                after |-> ArgumentAfter(obj),
                twice |-> RemoveEmptyTopLevel(RemoveEmptyTopLevel(obj))]
    /\ UNCHANGED <<transports, httpTransports, sse, http, last, delivery>>

\* The caller goes on with the result.
Returned ==
    /\ call # NoCall
    /\ call' = NoCall
    /\ UNCHANGED <<transports, httpTransports, sse, http, last, delivery>>

NextIndex ==
    \/ ExtractApiKeyCalled
    \/ AuthenticateCalled
    \/ RemoveEmptyTopLevelCalled
    \/ Returned

SpecIndex == Init /\ [][NextIndex]_vars

----------------------------------------------------------------------------
Next ==
    \/ GetSseV1
    \/ GetSseV2
    \/ ResClose
    \/ PostMessagesV1
    \/ PostMessagesV2
    \/ McpV1
    \/ McpV2
    \/ InitRegistered
    \/ InitResponded
    \/ HttpClose
    \/ HeadSseV1
    \/ HeadSseV2
    \/ Other
    \/ Sigint
    \/ Flush

Spec == Init /\ [][Next]_vars

\* Clients that use the SSE endpoints only.
NextSse ==
    \/ GetSseV1
    \/ GetSseV2
    \/ ResClose
    \/ PostMessagesV1
    \/ PostMessagesV2
    \/ HeadSseV1
    \/ HeadSseV2
    \/ Other
    \/ Sigint
    \/ Flush

SpecSse == Init /\ [][NextSse]_vars

\* Clients that use the Streamable-HTTP endpoints only.
NextHttp ==
    \/ McpV1
    \/ McpV2
    \/ InitRegistered
    \/ InitResponded
    \/ HttpClose
    \/ Sigint
    \/ Flush

SpecHttp == Init /\ [][NextHttp]_vars

----------------------------------------------------------------------------
(* Vocabulary of the properties *)

\* The version of the route on which a transport was created.
TargetVersion(target) ==
    IF target.kind = "sse" THEN sse[target.t].version
    ELSE http[target.t].version

\* A request has just been handed to a transport.
Delivered == last.op \in {"messages", "mcp"} /\ last.target.kind # "none"

\* The gateway itself answered 400 and handed the request to no transport.
Rejected400 ==
    /\ last.status = 400
    /\ last.by = "gateway"
    /\ last.target = NoTarget

\* The Streamable-HTTP registry holds an entry for this session id, version
\* and API key.
Registered(sid, version, apiKey) ==
    \E e \in httpTransports :
        e.key = sid /\ e.version = version /\ e.apiKey = apiKey

\* No other Streamable-HTTP transport was given the session id of t.
UniqueHttpSid(t) ==
    \A u \in 1..Len(http) : u # t => http[u].sessionId # http[t].sessionId

\* The v1 SSE sessions registered for API key K (by the key of the
\* connection's own path, not by the text of the registry key).
V1SessionsOf(K) ==
    {e \in transports : e.version = "v1" /\ sse[e.t].apiKey = K}

\* sid is the session id of a session registered for API key K.
ValidSidFor(K, sid) ==
    \E e \in transports : sse[e.t].apiKey = K /\ sse[e.t].sessionId = sid

----------------------------------------------------------------------------
(* C1 - version isolation.  Whenever a request is handed to a transport, on
   a message endpoint (exact lookup or v1 fallback) or on a Streamable-HTTP
   endpoint, the transport was created and registered under the version of
   the endpoint the request arrived on. *)
C1_VersionIsolation ==
    Delivered =>
        /\ TargetVersion(last.target) = last.v
        /\ last.target.kind = "sse" =>
               \A e \in transports : e.t = last.target.t => e.version = last.v
        /\ last.target.kind = "http" =>
               \A e \in httpTransports :
                   e.t = last.target.t => e.version = last.v

\* The v1 fallback delivered a message while a v2 session was registered.
C1_Witness ==
    /\ last.op = "messages"
    /\ last.path = "fallback"
    /\ \E e \in transports : e.version = "v2"

(* C2 - API-key isolation on Streamable-HTTP.  A request is delegated to an
   existing transport only if the registry entry of its session id has the
   endpoint's version and the path's API key; a session id registered under
   another API key is never resolved, and a non-initialize request carrying
   it gets HTTP 400 from the gateway. *)
C2_ApiKeyIsolation ==
    last.op = "mcp" =>
        /\ last.path = "existing" =>
               /\ Registered(last.sid, last.v, last.k)
               /\ Get(httpTransports, last.sid).t = last.target.t
               /\ http[last.target.t].apiKey = last.k
               /\ http[last.target.t].sessionId = last.sid
        /\ (\E e \in httpTransports : e.key = last.sid /\ e.apiKey # last.k) =>
               /\ last.path # "existing"
               /\ last.method # "initialize" => Rejected400

\* A non-initialize request carried the id of a session of the same version
\* but of another API key.
C2_Witness ==
    /\ last.op = "mcp"
    /\ last.method = "tools/list"
    /\ \E e \in httpTransports :
           e.key = last.sid /\ e.apiKey # last.k /\ e.version = last.v
    /\ Rejected400

(* C3 - fallback determinism on POST /{K}/messages.  A message with no
   session id, or with one that belongs to no session of K, goes to the
   single v1 SSE session registered for K if there is exactly one, and is
   rejected with 400 if there are none or several. *)
C3_FallbackDeterminism ==
    (last.op = "messages" /\ last.v = "v1"
     /\ ~ValidSidFor(last.k, last.sid)) =>
        IF Cardinality(V1SessionsOf(last.k)) = 1
        THEN \E e \in V1SessionsOf(last.k) :
                 last.target = [kind |-> "sse", t |-> e.t]
        ELSE Rejected400

(* C4 - on /{apiKey}/{version}/mcp a request that is not an initialize and
   whose session id is absent or resolves to no entry of that version and
   API key gets HTTP 400 with JSON-RPC error -32000 'Invalid or missing
   session ID' and the request's id (null if it has none), and leaves both
   registries as they were. *)
C4_InvalidSession ==
    [][(last'.op = "mcp" /\ last'.method # "initialize"
        /\ ~Registered(last'.sid, last'.v, last'.k)) =>
           /\ last'.status = 400
           /\ last'.by = "gateway"
           /\ last'.code = -32000
           /\ last'.message = "Invalid or missing session ID"
           /\ last'.id = (IF last'.reqId = "undefined" THEN "null"
                          ELSE last'.reqId)
           /\ last'.target = NoTarget
           /\ UNCHANGED <<call, delivery, transports, httpTransports, http>>]_vars

\* A tools/list request with id 0 carried the id of a session of the other
\* version and was rejected.
C4_Witness ==
    /\ last.op = "mcp"
    /\ last.method = "tools/list"
    /\ last.reqId = "0"
    /\ last.code = -32000
    /\ \E e \in httpTransports : e.key = last.sid /\ e.version # last.v

(* C5 as stated - every Streamable-HTTP initialize request that is not
   failed by transport construction, connect or the transport itself ends
   with a session of its own: a transport constructed for it and registered
   under the endpoint's version and the path's API key. *)
C5_EveryInitializeCreates ==
    (last.op \in {"mcp", "mcpInit"} /\ last.method = "initialize"
     /\ last.status # 0 /\ last.path \notin {"failed", "refused"}) =>
        /\ last.op = "mcpInit"
        /\ last.path = "done"
        /\ Registered(http[last.target.t].sessionId, last.v, last.k)

(* C5 amended - an initialize request whose session id is absent or resolves
   to no entry of the endpoint's version and the path's API key gets a new
   transport; when such a request completes successfully (session ids being
   unique per transport) the registry holds an entry for that transport
   under its session id, with the endpoint's version and the path's API
   key. *)
C5_InitializeCreates ==
    /\ (last.op = "mcp" /\ last.method = "initialize"
        /\ last.path \notin {"failed", "refused"}
        /\ ~Registered(last.sid, last.v, last.k)) =>
           /\ last.path = "connecting"
           /\ last.target = [kind |-> "http", t |-> Len(http)]
           /\ http[Len(http)].version = last.v
           /\ http[Len(http)].apiKey = last.k
    /\ (last.op = "mcpInit" /\ last.path = "done"
        /\ UniqueHttpSid(last.target.t)) =>
           /\ http[last.target.t].version = last.v
           /\ http[last.target.t].apiKey = last.k
           /\ [key |-> http[last.target.t].sessionId, t |-> last.target.t,
               version |-> last.v, apiKey |-> last.k] \in httpTransports

\* An initialize request on the v2 endpoint completed, and it is the second
\* session of the registry.
C5_Witness ==
    /\ last.op = "mcpInit"
    /\ last.path = "done"
    /\ last.v = "v2"
    /\ UniqueHttpSid(last.target.t)
    /\ Cardinality(httpTransports) = 2

(* C6 - SSE session lifecycle.  With registry keys unique per connection
   (which unique session ids give), and until the process shuts down, the
   SSE registry holds exactly one entry per connection that was opened and
   has not closed, keyed
   '<apiKey>-<sessionId>' and tagged with the version of the route it was
   opened on; so a close removes that connection's entry and no other. *)
UniqueSseKeys ==
    \A i, j \in 1..Len(sse) : i # j => SseEntry(i).key # SseEntry(j).key

C6_SseLifecycle ==
    (UniqueSseKeys /\ last.op # "SIGINT") =>
        transports = {SseEntry(t) : t \in {i \in 1..Len(sse) : sse[i].open}}

\* One connection has closed while a v2 connection of the same API key is
\* still open.
C6_Witness ==
    /\ UniqueSseKeys
    /\ \E i, j \in 1..Len(sse) :
           /\ ~sse[i].open
           /\ sse[j].open
           /\ sse[j].version = "v2"
           /\ sse[i].apiKey = sse[j].apiKey

(* C7 - when a Streamable-HTTP transport signals close, no entry is left
   under its session id; from then on (session ids being unique per
   transport) a non-initialize request carrying that session id is rejected
   with HTTP 400 and code -32000. *)
C7_CloseRemoves ==
    /\ last.op = "onclose" =>
           ~Has(httpTransports, http[last.target.t].sessionId)
    /\ (last.op = "mcp" /\ last.method # "initialize"
        /\ \E t \in 1..Len(http) :
               /\ http[t].closed
               /\ http[t].sessionId = last.sid
               /\ UniqueHttpSid(t)) =>
           /\ Rejected400
           /\ last.code = -32000

\* A tools/list request on the right endpoint and API key carried the id of
\* a closed session.
C7_Witness ==
    /\ last.op = "mcp"
    /\ last.method = "tools/list"
    /\ last.code = -32000
    /\ \E t \in 1..Len(http) :
           /\ http[t].closed
           /\ http[t].sessionId = last.sid
           /\ http[t].version = last.v
           /\ http[t].apiKey = last.k
           /\ UniqueHttpSid(t)

(* C8 - registry uniqueness.  In both registries a key has at most one
   entry; an SSE registration under a key that is already present replaces
   the entry, so the entry under a key is that of the latest connection
   registered under it. *)
C8_RegistryUnique ==
    /\ \A e1, e2 \in transports : e1.key = e2.key => e1 = e2
    /\ \A e1, e2 \in httpTransports : e1.key = e2.key => e1 = e2
    /\ \A e \in transports : \A i \in 1..Len(sse) :
           SseEntry(i).key = e.key => i <= e.t

\* Two connections were registered under one key and the key has an entry.
C8_Witness ==
    \E i, j \in 1..Len(sse) :
        /\ i < j
        /\ SseEntry(i).key = SseEntry(j).key
        /\ SseEntry(j) \in transports

(* C9 - close idempotence.  In every reachable state, applying the close
   path of a session twice gives the registry that applying it once gives
   (its entry absent, the others untouched), for the SSE close handler and
   for onclose; and a second onclose of a transport raises no error. *)
C9_CloseIdempotent ==
    /\ \A t \in 1..Len(sse) :
           /\ CloseSse(CloseSse(transports, t), t) = CloseSse(transports, t)
           /\ CloseSse(transports, t) =
                  {e \in transports : e.key # SseEntry(t).key}
    /\ \A t \in 1..Len(http) :
           LET once == OnClose(httpTransports, t)
               twice == OnClose(once.reg, t)
           IN  /\ twice.reg = once.reg
               /\ ~once.threw
               /\ ~twice.threw
               /\ once.reg =
                      {e \in httpTransports : e.key # http[t].sessionId}
    /\ (last.op = "onclose" /\ last.path = "again") =>
           /\ last.by # "exception"
           /\ ~Has(httpTransports, http[last.target.t].sessionId)

\* A transport has signalled close a second time while another session is
\* registered.
C9_Witness ==
    /\ last.op = "onclose"
    /\ last.path = "again"
    /\ httpTransports # {}

\* A request addressed to a registered session of the other version: the
\* session id it carries is, under the path's API key, that of an entry
\* whose version is not the endpoint's.
CrossVersion(l, reg, hreg) ==
    \/ /\ l.op = "messages"
       /\ \E e \in reg : e.key = CompositeKey(l.k, l.sid) /\ e.version # l.v
    \/ /\ l.op = "mcp"
       /\ \E e \in hreg : e.key = l.sid /\ e.apiKey = l.k /\ e.version # l.v

(* C10 as stated - a message addressed to a session of the other version is
   always rejected with an error response and handed to no transport. *)
C10_CrossVersionRejected ==
    CrossVersion(last, transports, httpTransports) => Rejected400

(* C10 amended - a message addressed to a session of the other version is
   never handed to that session nor to any other existing transport, and it
   leaves both registries (entries and version tags) as they were; it is
   rejected with HTTP 400, unless it is a Streamable-HTTP initialize
   request, for which a new transport is constructed instead. *)
C10_CrossVersionIsolated ==
    [][CrossVersion(last', transports, httpTransports) =>
           /\ UNCHANGED <<call, delivery, transports, httpTransports>>
           /\ IF last'.op = "mcp" /\ last'.method = "initialize"
              THEN \/ /\ last'.path = "connecting"
                      /\ last'.target = [kind |-> "http", t |-> Len(http) + 1]
                      /\ Len(http') = Len(http) + 1
                   \/ /\ last'.path \in {"failed", "refused"}
                      /\ last'.target = NoTarget
                      /\ UNCHANGED http
              ELSE /\ last'.status = 400
                   /\ last'.by = "gateway"
                   /\ last'.target = NoTarget
                   /\ UNCHANGED http]_vars

\* A v1 message carried the id of a v2 session while exactly one v1 session
\* of the same API key was registered (the fallback would have had a
\* candidate).
C10_Witness ==
    /\ last.op = "messages"
    /\ last.v = "v1"
    /\ CrossVersion(last, transports, httpTransports)
    /\ Cardinality(V1SessionsOf(last.k)) = 1
    /\ Rejected400

\* sid is the session id of a registered Streamable-HTTP session of API
\* key K (by the key of the initialize request that created it).
HttpValidSidFor(K, sid) ==
    \E e \in httpTransports :
        http[e.t].apiKey = K /\ http[e.t].sessionId = sid

(* C11 - no fallback outside POST /{apiKey}/messages.  A request on
   POST /{apiKey}/v2/messages whose session id is missing or is that of no
   session registered for the API key is rejected with 400, and a request
   on a Streamable-HTTP endpoint whose session id is missing or is that of
   no session registered for the API key is never delegated to an existing
   transport. *)
C11_NoFallbackElsewhere ==
    /\ (last.op = "messages" /\ last.v = "v2"
        /\ ~ValidSidFor(last.k, last.sid)) => Rejected400
    /\ (last.op = "mcp" /\ ~HttpValidSidFor(last.k, last.sid)) =>
           last.path # "existing"

(* C12 - when transport construction or the backend connect fails during a
   Streamable-HTTP initialize request, the gateway answers HTTP 500 with the
   JSON-RPC error -32603 'Internal server error' and the request's id (null
   if it has none), sends exactly that one response, and registers and keeps
   no transport. *)
C12_InitFailure ==
    [][(last'.op = "mcp" /\ last'.path = "failed") =>
           /\ last'.method = "initialize"
           /\ last'.status = 500
           /\ last'.by = "gateway"
           /\ last'.responses = 1
           /\ last'.body =
                  { <<"jsonrpc", "2.0">>, <<"error.code", "-32603">>,
                    <<"error.message", "Internal server error">>,
                    <<"id", IF last'.reqId = "undefined" THEN "null"
                            ELSE last'.reqId>> }
           /\ last'.target = NoTarget
           /\ UNCHANGED <<call, delivery, transports, httpTransports, http>>]_vars

\* An initialize request with id 0 failed while another session was
\* registered.
C12_Witness ==
    /\ last.op = "mcp"
    /\ last.path = "failed"
    /\ last.reqId = "0"
    /\ httpTransports # {}

(* C13 - for every Streamable-HTTP request at most one response is sent; an
   exception raised before any response was sent is answered with exactly
   one HTTP 500 carrying the JSON-RPC error -32603 'Internal server error'
   and the request's id (or null), and an exception raised after a response
   was sent is answered with nothing more. *)
C13_ExactlyOneResponse ==
    last.op \in {"mcp", "mcpInit", "enrich"} =>
        /\ last.responses <= 1
        /\ last.threw = "before" =>
               /\ last.responses = 1
               /\ last.status = 500
               /\ last.body =
                      { <<"jsonrpc", "2.0">>, <<"error.code", "-32603">>,
                        <<"error.message", "Internal server error">>,
                        <<"id", IF last.reqId = "undefined" THEN "null"
                                ELSE last.reqId>> }
        /\ last.threw = "after" => last.responses = 1

(* C14 - when the process exits on the termination signal its status is 0
   and both registries are empty: every SSE entry and every Streamable-HTTP
   entry has been removed. *)
C14_ShutdownEmptiesRegistry ==
    last.op = "SIGINT" =>
        /\ last.exit = 0
        /\ transports = {}
        /\ httpTransports = {}

(* C15 - shutdown always terminates.  The termination signal can be handled
   at every turn of the event loop, whatever sessions are registered and
   whatever requests are in flight; the handler waits for nothing and exits
   with status 0; every entry it walks is removed except those whose own
   close step failed, so one failure stops neither the rest of the loop nor
   the exit. *)
C15_ShutdownTerminates ==
    /\ last = Idle => ENABLED Sigint
    /\ last.op = "SIGINT" =>
           /\ last.exit = 0
           /\ {e.key : e \in transports} = last.failed

\* The process has exited although the close step of one entry failed; the
\* entry of another connection, which is still open, was removed.
C15_Witness ==
    /\ last.op = "SIGINT"
    /\ last.exit = 0
    /\ last.failed # {}
    /\ \E t \in 1..Len(sse) :
           sse[t].open /\ SseEntry(t).key \notin last.failed

(* C16 - a HEAD request on /{apiKey}/sse or /{apiKey}/v2/sse is answered
   with HTTP 200 and leaves both registries unchanged. *)
C16_HeadCreatesNoSession ==
    [][last'.op = "head" =>
           /\ last'.status = 200
           /\ UNCHANGED <<call, delivery, transports, httpTransports>>]_vars

(* C17 - GET /health is answered with HTTP 200 and the same static document,
   which enumerates the versions v1 and v2 and their endpoint templates,
   whatever sessions are active, and changes no registry. *)
C17_Health ==
    [][last'.op = "health" =>
           /\ last'.status = 200
           /\ last'.responses = 1
           /\ last'.body =
                  { <<"status", "OK">>,
                    <<"versions", "v1">>, <<"versions", "v2">>,
                    <<"endpoints.v1.sse", "/{apiKey}/sse">>,
                    <<"endpoints.v1.messages", "/{apiKey}/messages">>,
                    <<"endpoints.v2.sse", "/{apiKey}/v2/sse">>,
                    <<"endpoints.v2.messages", "/{apiKey}/v2/messages">> }
           /\ UNCHANGED <<call, delivery, transports, httpTransports, sse, http>>]_vars

\* The health document was served while two sessions were registered.
C17_Witness ==
    /\ last.op = "health"
    /\ last.verb = "GET"
    /\ Cardinality(transports) = 2

(* C18 - a request whose method and path match no registered route (a
   route for GET also matching HEAD) is answered with HTTP 404 and a JSON document that lists the supported
   endpoints, and changes no registry. *)
C18_NotFound ==
    [][(last'.op \in {"health", "notFound"}
        /\ \A i \in 1..Len(Routes) :
               ~(Routes[i].url = last'.url
                 /\ HandlesMethod(Routes[i], last'.verb))) =>
           /\ last'.status = 404
           /\ last'.responses = 1
           /\ <<"error", "Endpoint not found">> \in last'.body
           /\ \A url \in {"/health", "/:apiKey/sse", "/:apiKey/messages",
                          "/:apiKey/v2/sse", "/:apiKey/v2/messages"} :
                  \E p \in last'.body : p[2] = url
           /\ UNCHANGED <<call, delivery, transports, httpTransports, sse, http>>]_vars

\* A POST on /health, a path that has a route for GET only, was answered by
\* the catch-all while a session was registered.
C18_Witness ==
    /\ last.op = "notFound"
    /\ last.verb = "POST"
    /\ last.url = "/health"
    /\ transports # {}

(* C19 as stated - with two v1 SSE sessions registered for an API key, a
   message POST to that key's v1 messages endpoint without a session id gets
   HTTP 400 with a body whose availableTransports list has two elements. *)
C19_AvailableTransportsListed ==
    (last.op = "messages" /\ last.v = "v1" /\ last.sid = ""
     /\ Cardinality(V1SessionsOf(last.k)) = 2) =>
        /\ last.status = 400
        /\ Cardinality({p \in last.body : p[1] = "availableTransports"}) = 2

(* C19 amended - with two v1 SSE sessions registered for an API key, a
   message POST to that key's v1 messages endpoint without a session id is
   rejected by the gateway with HTTP 400 and the body
   {error: 'No V1 transport found for sessionId'}, which has no
   availableTransports member. *)
C19_AmbiguousRejected ==
    (last.op = "messages" /\ last.v = "v1" /\ last.sid = ""
     /\ Cardinality(V1SessionsOf(last.k)) = 2) =>
        /\ Rejected400
        /\ last.body = {<<"error", "No V1 transport found for sessionId">>}

\* Such a request was rejected.
C19_Witness ==
    /\ last.op = "messages"
    /\ last.v = "v1"
    /\ last.sid = ""
    /\ Cardinality(V1SessionsOf(last.k)) = 2
    /\ last.status = 400

\* The keys under which sessions are registered.
RegistryKeys ==
    {e.key : e \in transports} \cup {e.key : e \in httpTransports}

(* C20 - a message POST that the gateway rejects gets the same response
   whatever the number of fallback candidates: HTTP 400 with a body that
   depends on the endpoint only; and no error response of the gateway
   contains a key of the registry. *)
C20_RejectionsIndistinguishable ==
    /\ (last.op = "messages" /\ last.path = "reject") =>
           /\ Rejected400
           /\ last.body =
                  {<<"error", IF last.v = "v1"
                              THEN "No V1 transport found for sessionId"
                              ELSE "No V2 transport found for sessionId">>}
    /\ (last.by = "gateway" /\ last.status >= 400) =>
           \A p \in last.body : p[2] \notin RegistryKeys

\* A v1 message was rejected because the fallback found two candidates.
C20_Witness ==
    /\ last.op = "messages"
    /\ last.v = "v1"
    /\ last.path = "reject"
    /\ Cardinality({e \in transports :
                       e.version = "v1"
                       /\ StartsWith(e.key, last.k \o "-")}) = 2

\* The message of the request body that position i of the dispatched payload
\* came from.
InputMessage(i) ==
    IF i <= Len(last.input.msgs) THEN last.input.msgs[i] ELSE NoParams

\* The message at position i of the payload carries the path API key in
\* params._meta, in place of whatever the caller put there, and keeps the
\* other _meta members.
Injected(i) ==
    LET m == last.payload.msgs[i]
    IN  /\ m.meta.kind = "object"
        /\ {f \in m.meta.fields : f[1] = "apiKey"} = {<<"apiKey", last.k>>}
        /\ {f \in m.meta.fields : f[1] # "apiKey"}
               = {f \in InputMessage(i).meta.fields : f[1] # "apiKey"}

\* C21: whenever a payload is handed to a transport (the SSE message
\* endpoints and the mcp endpoints of both versions), every message in it
\* that has a params block carries the path API key in params._meta.apiKey,
\* a caller-supplied value is overwritten and the other _meta members are
\* kept.
C21_ApiKeyInjected ==
    (last.op = "payload" /\ last.threw = "")
        => \A i \in 1..Len(last.payload.msgs) :
               last.payload.msgs[i].params # "undefined" => Injected(i)

\* The same for request bodies that are one JSON object.
C21_SingleMessageInjected ==
    (last.op = "payload" /\ last.threw = "" /\ last.input.shape # "array")
        => \A i \in 1..Len(last.payload.msgs) :
               last.payload.msgs[i].params # "undefined" => Injected(i)

C21_SingleMessageWitness ==
    /\ last.op = "payload" /\ last.threw = "" /\ last.path = "mcp"
    /\ last.input.shape = "object"
    /\ <<"apiKey", "other">> \in last.input.msgs[1].meta.fields
    /\ last.payload.msgs[1].meta.fields
           = {<<"apiKey", last.k>>, <<"progressToken", "p">>}

\* C22: the session id used for the lookup on POST /{apiKey}/messages and
\* on /{apiKey}/{version}/mcp is the first non-empty of the query parameter
\* sessionId, the header mcp-session-id and the header x-mcp-session-id:
\* the query value wins over both headers, mcp-session-id over
\* x-mcp-session-id.
C22_SessionIdPrecedence ==
    last.op = "sessionId" =>
        /\ last.req.query # "" => last.sid = last.req.query
        /\ (last.req.query = "" /\ last.req.mcpSessionId # "")
               => last.sid = last.req.mcpSessionId
        /\ (last.req.query = "" /\ last.req.mcpSessionId = "")
               => last.sid = last.req.xMcpSessionId

C22_Witness ==
    /\ last.op = "sessionId" /\ last.path = "mcp"
    /\ last.req = Req("", "s", "t")
    /\ last.sid = "s"

\* The handler of the request was left by an exception nothing caught.
Unhandled == last.path \in {"escaped", "connectFailed"}

\* C23: every request that fails on the SSE, message and mcp endpoints gets
\* one response, with a structured JSON body when the gateway answers, and
\* no failure leaves the handler as an unhandled exception, also when the
\* transport's message handler or the backend connect throws.
C23_FailuresAnswered ==
    last.op \in {"sse", "messages", "mcp", "mcpInit", "enrich"} =>
        /\ ~Unhandled
        /\ (last.status >= 400 \/ last.threw # "") => last.responses = 1
        /\ (last.status >= 400 /\ last.by = "gateway") => last.body # {}

\* The same for the failures that the handlers catch or detect themselves.
C23_CaughtFailuresAnswered ==
    (last.op \in {"sse", "messages", "mcp", "mcpInit", "enrich"}
     /\ ~Unhandled) =>
        /\ (last.status >= 400 \/ last.threw # "") => last.responses = 1
        /\ (last.status >= 400 /\ last.by = "gateway") => last.body # {}

\* C27: when connecting a new SSE transport to the backend server fails
\* during GET sse, the registry holds no entry for that connection after the
\* failure.
C27_FailedConnectNotRegistered ==
    (last.op = "sse" /\ last.path = "connectFailed")
        => \A e \in transports : e.t # last.target.t

\* C24: for an initialize request the transport is registered under the
\* session id it was assigned strictly before the initialize response goes
\* out: from the moment the id is assigned, and so at every moment after
\* the response, a request carrying that id on the same endpoint and API
\* key finds the entry (session ids being unique per transport), unless the
\* transport was closed in between.
C24_RegisteredBeforeResponse ==
    \A t \in 1..Len(http) :
        /\ http[t].pc = "connecting" => http[t].sessionId = ""
        /\ (http[t].pc \in {"initialized", "done"} /\ ~http[t].closed
            /\ UniqueHttpSid(t)) =>
               /\ Resolves(httpTransports, http[t].version, http[t].apiKey,
                           http[t].sessionId)
               /\ Get(httpTransports, http[t].sessionId).t = t
               /\ (last.op = "mcp" /\ last.sid = http[t].sessionId
                   /\ last.v = http[t].version /\ last.k = http[t].apiKey)
                      => (last.path = "existing" /\ last.target.t = t)

\* A follow-up request carrying the assigned id reached the transport whose
\* initialize response had gone out.
C24_Witness ==
    /\ last.op = "mcp" /\ last.path = "existing"
    /\ http[last.target.t].pc = "done"
    /\ ~http[last.target.t].closed
    /\ UniqueHttpSid(last.target.t)
    /\ last.sid = http[last.target.t].sessionId

\* The SSE half of C25: every key of the SSE registry is the API key, "-"
\* and the session id of the connection it refers to, and (no two
\* connections having drawn the same key) two open connections with the
\* same session id under different API keys have an entry each.
C25_SseCompositeKeys ==
    /\ \A e \in transports :
           e.key = sse[e.t].apiKey \o "-" \o sse[e.t].sessionId
    /\ (UniqueSseKeys /\ last.op # "SIGINT") =>
           \A t, u \in 1..Len(sse) :
               (sse[t].open /\ sse[u].open
                /\ sse[t].sessionId = sse[u].sessionId
                /\ sse[t].apiKey # sse[u].apiKey)
                   => (SseEntry(t) \in transports
                       /\ SseEntry(u) \in transports)

\* C25: every registry key, SSE and Streamable-HTTP, is the API key, a
\* separator and the session id; two sessions with the same session id
\* under different API keys occupy distinct entries, and neither overwrites
\* or hides the other.
C25_CompositeKeys ==
    /\ C25_SseCompositeKeys
    /\ \A e \in httpTransports :
           e.key = e.apiKey \o "-" \o http[e.t].sessionId
    /\ \A t, u \in 1..Len(http) :
           (http[t].pc # "connecting" /\ http[u].pc # "connecting"
            /\ ~http[t].closed /\ ~http[u].closed
            /\ http[t].sessionId = http[u].sessionId
            /\ http[t].apiKey # http[u].apiKey)
               => \E e, f \in httpTransports : e.t = t /\ f.t = u

\* Every connection, open or closed, has a registry key of its own.
UniqueHttpSids == \A t \in 1..Len(http) : UniqueHttpSid(t)

\* C26: the version tag of a registry entry is set when the entry is
\* created, to the version of the route that created it, and never changes
\* while the key stays registered: over any step an entry that is still
\* the same transport's keeps its tag, and with keys unique per connection
\* a key that stays registered keeps its tag.
C26_VersionFixed ==
    [][/\ \A e \in transports, f \in transports' :
             (e.key = f.key /\ (e.t = f.t \/ UniqueSseKeys'))
                 => f.version = e.version
       /\ \A e \in httpTransports, f \in httpTransports' :
             (e.key = f.key /\ (e.t = f.t \/ UniqueHttpSids'))
                 => f.version = e.version
       /\ \A f \in transports' :
             (\A e \in transports : e.key # f.key)
                 => f.version = sse'[f.t].version
       /\ \A f \in httpTransports' :
             (\A e \in httpTransports : e.key # f.key)
                 => f.version = http'[f.t].version]_vars

\* A v2 entry is registered next to another session, so that a step on the
\* other session happens while the v2 key stays registered.
C26_Witness ==
    /\ Cardinality(transports) + Cardinality(httpTransports) = 1
    /\ \E e \in transports \cup httpTransports : e.version = "v2"
    /\ \E t \in 1..Len(sse) : ~sse[t].open

\* C28: within one Streamable-HTTP handler nothing runs between the registry
\* lookup and the registry mutation that follows it: while an initialize
\* handler is between its lookup miss and its registration, no other
\* request is handled and the registry does not change.
C28_LookupMutationAtomic ==
    [][\A t \in 1..Len(http) :
          (http[t].pc = "connecting" /\ http'[t].pc = "connecting")
              => /\ httpTransports' = httpTransports
                 /\ last' \in {last, Idle}]_vars

\* C29: two initialize requests being handled at the same time both go on
\* to construct a transport, the gateway rejecting neither; when a
\* transport's initialization callback fires, the registry afterwards holds
\* exactly that transport under its session id, whatever was registered
\* there before (so of two callbacks with the same key the later one
\* stays), and every entry under another key is kept (so with different
\* keys both are registered).
C29_ConcurrentInitialize ==
    [][/\ \A t \in 1..Len(http) :
             (http[t].pc = "connecting" /\ http'[t].pc = "initialized")
                 => httpTransports' =
                        {e \in httpTransports :
                             e.key # http'[t].sessionId}
                        \cup {[key |-> http'[t].sessionId, t |-> t,
                                version |-> http[t].version,
                                apiKey |-> http[t].apiKey]}
       /\ (last'.op = "mcp" /\ last'.method = "initialize"
           /\ \E t \in 1..Len(http) : http[t].pc = "connecting")
              => /\ last'.path # "reject"
                 /\ last'.path = "existing"
                        => Resolves(httpTransports, last'.v, last'.k,
                                    last'.sid)]_vars

\* Two initialize requests were in flight together, their callbacks drew
\* the same session id, and the registry holds the transport whose
\* callback fired last (the one constructed first).
C29_Witness ==
    /\ Len(http) = 2
    /\ http[1].pc = "initialized" /\ http[2].pc = "initialized"
    /\ http[1].sessionId = http[2].sessionId
    /\ httpTransports = {[key |-> http[1].sessionId, t |-> 1,
                          version |-> http[1].version,
                          apiKey |-> http[1].apiKey]}

\* The same with different session ids: both are registered.
C29_WitnessBoth ==
    /\ Len(http) = 2
    /\ http[1].pc = "initialized" /\ http[2].pc = "initialized"
    /\ http[1].sessionId # http[2].sessionId
    /\ Cardinality(httpTransports) = 2

\* C30: every transport created on a v1 route is connected to the v1
\* backend server and registered with version v1, every transport created
\* on a v2 route to the v2 backend server and with version v2; the reply
\* path an SSE transport advertises is the message endpoint of the same
\* version and API key.
C30_VersionConsistent ==
    /\ \A t \in 1..Len(sse) :
           LET suffix == IF sse[t].version = "v1" THEN "/messages"
                         ELSE "/v2/messages"
           IN  /\ sse[t].version \in {"v1", "v2"}
               /\ sse[t].server = "v1Server" <=> sse[t].version = "v1"
               /\ sse[t].server = "v2Server" <=> sse[t].version = "v2"
               /\ sse[t].endpoint = "/" \o sse[t].apiKey \o suffix
               /\ Dispatch("POST", "/:apiKey" \o suffix)
                      = (IF sse[t].version = "v1" THEN "postMessagesV1"
                         ELSE "postMessagesV2")
    /\ \A e \in transports : e.version = sse[e.t].version
    /\ \A t \in 1..Len(http) :
           /\ http[t].version \in {"v1", "v2"}
           /\ http[t].server = "v1Server" <=> http[t].version = "v1"
           /\ http[t].server = "v2Server" <=> http[t].version = "v2"
    /\ \A e \in httpTransports : e.version = http[e.t].version

\* A v2 SSE transport and a v2 Streamable-HTTP transport are registered
\* side by side.
C30_Witness ==
    /\ \E e \in transports :
           /\ e.version = "v2"
           /\ sse[e.t].endpoint = "/" \o sse[e.t].apiKey \o "/v2/messages"
    /\ \E e \in httpTransports : http[e.t].server = "v2Server"

\* C31: a Streamable-HTTP transport is never resolved by a request before
\* its initialization callback has fired, and every Streamable-HTTP registry
\* entry is stored under the session id assigned to its own transport, with
\* the API key and the version of the initialize request that created it.
C31_QueryableAfterCallback ==
    /\ \A e \in httpTransports :
           /\ http[e.t].pc # "connecting"
           /\ e.key = http[e.t].sessionId
           /\ e.key # ""
           /\ e.apiKey = http[e.t].apiKey
           /\ e.version = http[e.t].version
    /\ (last.op = "mcp" /\ last.target.kind = "http"
        /\ last.path = "existing")
           => http[last.target.t].pc # "connecting"
    /\ \A t \in 1..Len(http) :
           http[t].pc = "connecting"
               => \A e \in httpTransports : e.t # t

\* A request was delegated to a registered transport while another
\* transport was still waiting for its initialization callback.
C31_Witness ==
    /\ last.op = "mcp" /\ last.path = "existing"
    /\ \E t \in 1..Len(http) : http[t].pc = "connecting"
    /\ \E e \in httpTransports : e.t = last.target.t /\ e.version = "v2"

\* C32: messages posted to the same registered session are handed to that
\* session's transport in the order in which their handlers were entered:
\* a message for a registered session is handed over in the run that
\* entered its handler, and of two messages handed to one session's
\* transport the one that arrived first was handed first.  Between
\* different sessions no order is kept.
C32_FifoPerSession ==
    /\ \A m \in delivery.waiting : m.target.kind = "new"
    /\ \A i, j \in 1..Len(delivery.handed) :
           (i < j /\ delivery.handed[i].target = delivery.handed[j].target
            /\ delivery.handed[i].target.kind \in {"sse", "http"})
               => delivery.handed[i].n < delivery.handed[j].n
    /\ \A i \in 1..Len(delivery.entered) :
           delivery.entered[i].target.kind \in {"sse", "http"}
               => \E j \in 1..Len(delivery.handed) :
                      delivery.handed[j] = delivery.entered[i]

\* Two messages of the SSE session were handed over in arrival order, and an
\* initialize that arrived before the second of them was handed to its new
\* transport only after it.
C32_Witness ==
    /\ Len(delivery.handed) = 3
    /\ delivery.handed[1].target = [kind |-> "sse", t |-> 1]
    /\ delivery.handed[2].target = [kind |-> "sse", t |-> 1]
    /\ delivery.handed[3].target.kind = "new"
    /\ delivery.handed[3].n < delivery.handed[2].n

\* C33: a message posted to /{K}/messages or /{K}/v2/messages is only ever
\* delivered to an SSE session that was opened under API key K, by the exact
\* lookup as by the v1 fallback scan, also when another key K' starts with
\* K followed by "-".
C33_MessageKeyIsolation ==
    (last.op = "messages" /\ last.target.kind = "sse")
        => sse[last.target.t].apiKey = last.k

\* C34: a close removes only the entry of the transport that closed: when
\* the close notification of an SSE connection or of a Streamable-HTTP
\* transport arrives, every registry entry of another transport stays,
\* also the one that overwrote the closing transport's entry under the same
\* key.
C34_CloseRemovesOwnEntryOnly ==
    [][/\ \A t \in 1..Len(sse) :
             (sse[t].open /\ ~sse'[t].open)
                 => \A e \in transports : e.t # t => e \in transports'
       /\ \A t \in 1..Len(http) :
             (t <= Len(http') /\ http[t].pc = "done"
              /\ last'.op = "onclose" /\ last'.target.t = t)
                 => \A e \in httpTransports :
                        e.t # t => e \in httpTransports']_vars

\* C35: SSE sessions and Streamable-HTTP sessions are resolved from separate
\* registries: a request on /{apiKey}/{version}/mcp is delegated only to a
\* Streamable-HTTP transport registered under its session id, never because
\* an SSE connection has that id, and the exact lookup of the message
\* endpoints resolves only keys of the SSE registry, never the session id of
\* a Streamable-HTTP session.
C35_SeparateRegistries ==
    /\ (last.op = "mcp" /\ last.path = "existing") =>
           /\ last.target.kind = "http"
           /\ \E e \in httpTransports :
                  e.key = last.sid /\ e.t = last.target.t
    /\ (last.op = "mcp"
        /\ \A t \in 1..Len(http) : http[t].sessionId # last.sid)
           => last.path # "existing"
    /\ (last.op = "messages" /\ last.target.kind # "none") =>
           /\ last.target.kind = "sse"
           /\ last.target.t \in 1..Len(sse)
    /\ (last.op = "messages"
        /\ \A e \in transports : e.key # CompositeKey(last.k, last.sid))
           => last.path # "exact"

\* A request on the v2 message endpoint carried the id of a registered v2
\* Streamable-HTTP session of the same API key and was rejected.
C35_Witness ==
    /\ last.op = "messages" /\ last.v = "v2" /\ last.path = "reject"
    /\ \E e \in httpTransports :
           e.key = last.sid /\ e.apiKey = last.k /\ e.version = "v2"

\* C36: routing never mutates the registries: handling a message on either
\* message endpoint (delivered, delivered through the fallback, or rejected)
\* and delegating a Streamable-HTTP request to an existing transport add,
\* remove and modify no registry entry; a registry changes only in a step
\* that is an SSE open, an initialize registration, a close notification or
\* the shutdown.
C36_RoutingKeepsRegistries ==
    [][/\ (last'.op = "messages" /\ last' # last)
              => (transports' = transports
                  /\ httpTransports' = httpTransports)
       /\ (last'.op = "mcp" /\ last'.path = "existing" /\ last' # last)
              => (transports' = transports
                  /\ httpTransports' = httpTransports /\ http' = http)
       /\ (transports' # transports \/ httpTransports' # httpTransports)
              => \/ Len(sse') = Len(sse) + 1
                 \/ \E t \in 1..Len(http) :
                        http[t].pc = "connecting"
                            /\ http'[t].pc = "initialized"
                 \/ \E t \in 1..Len(sse) : sse[t].open /\ ~sse'[t].open
                 \/ last'.op = "onclose"
                 \/ last'.op = "SIGINT"]_vars

\* A message was delivered through the fallback next to a registered
\* Streamable-HTTP session.
C36_Witness ==
    /\ last.op = "messages" /\ last.path = "fallback"
    /\ Cardinality(transports) = 1
    /\ Cardinality(httpTransports) = 1

\* C37: a Streamable-HTTP request that reaches the lookup (its body passed
\* the enrichment) and whose session id resolves to an entry of the
\* endpoint's version and the path's API key is always delegated to that
\* entry's transport, also when its method is initialize; no transport is
\* constructed and no registry entry is added or replaced.
C37_ResolvableIsDelegated ==
    [][(last'.op = "mcp" /\ last' # last
        /\ \E e \in httpTransports :
               /\ e.key = last'.sid /\ last'.sid # ""
               /\ e.version = last'.v /\ e.apiKey = last'.k)
           => /\ last'.path = "existing"
              /\ \E e \in httpTransports :
                     e.key = last'.sid /\ e.t = last'.target.t
              /\ http' = http
              /\ httpTransports' = httpTransports]_vars

\* An initialize request carrying the id of a registered session was
\* delegated to that session's transport.
C37_Witness ==
    /\ last.op = "mcp" /\ last.method = "initialize"
    /\ last.path = "existing"
    /\ \E e \in httpTransports : e.key = last.sid /\ e.t = last.target.t

\* A header is set: present and not the empty string.
IsSet(v) == v.kind # "undefined" /\ v # Str(<<>>)

\* The value of a set header, its first element when it is an array.
FirstOf(v) == IF v.kind = "array" THEN Str(v.items[1]) ELSE v

\* The Authorization header is a string that starts with "bearer " in any
\* letter case.
IsBearer(v) ==
    /\ v.kind = "string"
    /\ Len(v.chars) >= 7
    /\ v.chars[1] \in {"b", "B"} /\ v.chars[2] \in {"e", "E"}
    /\ v.chars[3] \in {"a", "A"} /\ v.chars[4] \in {"r", "R"}
    /\ v.chars[5] \in {"e", "E"} /\ v.chars[6] \in {"r", "R"}
    /\ v.chars[7] = " "

\* token is what follows the first seven characters of chars, without the
\* blanks before and after it.
IsTrimmedToken(token, chars) ==
    /\ token = <<>> \/ (token[1] # " " /\ token[Len(token)] # " ")
    /\ \E i \in 8..(Len(chars) + 1) :
           /\ i + Len(token) - 1 <= Len(chars)
           /\ token = SubSeq(chars, i, i + Len(token) - 1)
           /\ \A j \in 8..Len(chars) :
                  (j < i \/ j > i + Len(token) - 1) => chars[j] = " "

\* C38: extractApiKey returns x-firecrawl-api-key if set, else x-api-key if
\* set (the first element when the header is an array), else the trimmed
\* token of an Authorization header that starts with "bearer " in any
\* letter case, and undefined when none of these is present; in cloud mode
\* authenticate fails with an error in that case.
C38_ExtractApiKeyPrecedence ==
    /\ call.name = "extractApiKey" =>
           LET h == call.arg
           IN  /\ IsSet(h.xFirecrawlApiKey)
                      => call.out = FirstOf(h.xFirecrawlApiKey)
               /\ (~IsSet(h.xFirecrawlApiKey) /\ IsSet(h.xApiKey))
                      => call.out = FirstOf(h.xApiKey)
               /\ (~IsSet(h.xFirecrawlApiKey) /\ ~IsSet(h.xApiKey)
                   /\ IsBearer(h.authorization))
                      => /\ call.out.kind = "string"
                         /\ IsTrimmedToken(call.out.chars,
                                           h.authorization.chars)
               /\ (~IsSet(h.xFirecrawlApiKey) /\ ~IsSet(h.xApiKey)
                   /\ ~IsBearer(h.authorization))
                      => call.out.kind = "undefined"
    /\ call.name = "authenticate" =>
           LET h == call.arg
           IN  (~IsSet(h.xFirecrawlApiKey) /\ ~IsSet(h.xApiKey)
                /\ ~IsBearer(h.authorization))
                   => call.out.kind = "error"

\* An upper-case bearer token with blanks around it was returned although an
\* empty x-firecrawl-api-key header was present.
C38_Witness ==
    /\ call.name = "extractApiKey"
    /\ call.arg.xFirecrawlApiKey = Str(<<>>)
    /\ call.arg.xApiKey = Absent
    /\ call.arg.authorization
           = Str(<<"b", "e", "a", "r", "e", "r", " ", " ", "k", " ">>)
    /\ call.out = Str(<<"k">>)

\* The kinds of value the function removes.
IsEmptyValue(v) ==
    \/ v.type = "null"
    \/ v.type = "undefined"
    \/ v.type = "string" /\ \A i \in 1..Len(v.chars) : v.chars[i] = " "
    \/ v.type = "array" /\ v.items = <<>>
    \/ v.type = "object" /\ v.items = <<>>

\* C39: removeEmptyTopLevel returns a copy of its input without the
\* top-level keys whose value is null, undefined, a blank string, an empty
\* array or an empty plain object, and keeps every other key with its value
\* unchanged (false, 0 and nested empty values included); it does not
\* modify its input, and applying it twice gives what applying it once
\* gives.
C39_RemoveEmptyTopLevel ==
    call.name = "removeEmptyTopLevel" =>
        /\ DOMAIN call.out
               = {k \in DOMAIN call.arg : ~IsEmptyValue(call.arg[k])}
        /\ \A k \in DOMAIN call.out : call.out[k] = call.arg[k]
        /\ call.after = call.arg
        /\ call.twice = call.out

\* A blank string was removed next to a kept false.
C39_Witness ==
    /\ call.name = "removeEmptyTopLevel"
    /\ DOMAIN call.arg = {"url", "formats"}
    /\ call.arg["url"] = JsValue("string", <<" ", " ">>, <<>>)
    /\ call.arg["formats"] = JsValue("boolean", <<"false">>, <<>>)
    /\ DOMAIN call.out = {"formats"}

============================================================================
